---- MODULE Spec2Model ----
(***************************************************************************)
(* Model of s3stream.py: BaseS3StreamingObject and its two subclasses,     *)
(* S3StreamingUpload (read does not prune; the driver calls prune) and     *)
(* S3StreamingDownload (read prunes what it returned).                     *)
(*                                                                         *)
(* Three threads use one object: a producer calling write, a consumer      *)
(* calling read / prune / seek / tell, and a closer calling close.  Every  *)
(* method is split at its blocking points (Event.wait, Lock acquire); the  *)
(* critical sections of write, prune and close are split once more, where  *)
(* the fields are updated and the events are not yet.                      *)
(*                                                                         *)
(* A byte is modelled by its 1-based index in the stream the producer      *)
(* writes, so the k-th byte written has value k and a lost, duplicated or  *)
(* reordered byte is visible in the data.                                  *)
(***************************************************************************)
EXTENDS Integers, Sequences, FiniteSets, TLC

\* ------------------------------------------------------------------ bounds
MaxFile == 2        \* file_size ranges over 0..MaxFile
MaxBuf == 2         \* buffer_size ranges over 1..MaxBuf
MaxChunk == 2       \* a write appends up to MaxChunk bytes
MaxN == 2           \* read(n) is called with n up to MaxN
MaxSeek == 1        \* seek offsets range over -MaxSeek..MaxSeek
StreamMaxFile == 4  \* file_size ranges over 0..StreamMaxFile in the streaming runs
ErrMaxFile == 2     \* file_size ranges over 0..ErrMaxFile in the runs that assign stream.error
CloseMaxFile == 1   \* file_size ranges over 0..CloseMaxFile in the fair runs with close

Variants == {"Upload", "Download"}
NoThread == "none"

\* ----------------------------------------------------------------- helpers
Min(a, b) == IF a < b THEN a ELSE b

\* The bytes numbered lo..hi of the written stream.
Bytes(lo, hi) == [i \in 1..(hi - lo + 1) |-> lo + i - 1]

\* Python's normalisation of a slice bound against a sequence of length len:
\* a negative bound counts from the end, and the result is clamped to 0..len.
NormIdx(i, len) ==
    IF i < 0 THEN (IF i + len < 0 THEN 0 ELSE i + len)
    ELSE IF i > len THEN len ELSE i

\* Python's s[i:j] on bytes.
PySlice(s, i, j) ==
    LET a == NormIdx(i, Len(s))
        b == NormIdx(j, Len(s))
    IN  IF a >= b THEN <<>> ELSE SubSeq(s, a + 1, b)

VARIABLES
    variant,          \* which subclass the object is
    file_size,        \* self.file_size
    buffer_size,      \* self.buffer_size
    data,             \* self.data
    seek_pos,         \* self.seek_pos
    processed,        \* self.processed
    closed,           \* self.__closed
    can_read_event,   \* self.can_read_event (flag of the Event)
    can_write_event,  \* self.can_write_event (flag of the Event)
    lock,             \* holder of self.lock, or NoThread
    ppc,              \* producer: position inside write
    chunk,            \* producer: argument of the write in progress
    cpc,              \* consumer: position inside read / prune / seek / tell
    n,                \* consumer: argument of the read in progress
    output,           \* consumer: local `output` of read
    amount,           \* consumer: argument of the prune in progress
    sarg,             \* consumer: <<offset, whence>> of the seek in progress
    ret,              \* consumer: the position seek or tell is returning
    error,            \* self.__error: "None" or "Exception"
    kpc,              \* closer: position inside close
    \* history variables (not read by the program)
    wtotal,           \* bytes handed to write so far
    got,              \* concatenation of the results S3StreamingDownload.read returned
    wover,            \* the write in progress was called with len(data)+len(chunk) > buffer_size
    wblocked,         \* the write in progress was called with can_write_event clear
    pruneSeen,        \* prunes since the write in progress was called: "no", "some", "below"
    closeRel,         \* close() found the consumer waiting in read, and no write completed since
    seek00            \* the consumer's last completed call was seek(0, 0)

vars == <<variant, file_size, buffer_size, data, seek_pos, processed, closed,
          can_read_event, can_write_event, lock, ppc, chunk, cpc, n, output,
          amount, sarg, ret, error, kpc, wtotal, got, wover, wblocked, pruneSeen,
          closeRel, seek00>>

objVars == <<data, seek_pos, processed, closed, can_read_event, can_write_event, lock>>
cfgVars == <<variant, file_size, buffer_size>>
prodVars == <<ppc, chunk, wtotal, wover, wblocked>>
consVars == <<cpc, n, output, amount, sarg, ret, got, seek00>>

\* ------------------------------------------------------------ construction
\* BaseS3StreamingObject.__init__ : the object's fields after construction.
InitObject ==
    /\ processed = 0
    /\ seek_pos = 0
    /\ data = <<>>
    /\ closed = FALSE
    /\ error = "None"
    /\ lock = NoThread
    /\ can_write_event = TRUE
    /\ can_read_event = FALSE

InitThreads ==
    /\ ppc = "idle" /\ chunk = <<>>
    /\ cpc = "idle" /\ n = 0 /\ output = <<>> /\ amount = 0 /\ sarg = <<0, 0>>
    /\ ret = 0 /\ seek00 = FALSE
    /\ kpc = "idle"
    /\ wtotal = 0 /\ got = <<>>
    /\ wover = FALSE /\ wblocked = FALSE /\ pruneSeen = "no"
    /\ closeRel = FALSE

Init ==
    /\ variant \in Variants
    /\ file_size \in 0..MaxFile
    /\ buffer_size \in 1..MaxBuf
    /\ InitObject
    /\ InitThreads

\* ------------------------------------------------------------------- write
\* The producer calls write(chunk) with the next k bytes of the stream; it
\* never hands over more than file_size bytes in total.
WriteCall(k) ==
    /\ ppc = "idle"
    /\ wtotal + k <= file_size
    /\ chunk' = Bytes(wtotal + 1, wtotal + k)
    /\ wtotal' = wtotal + k
    /\ wover' = (Len(data) + k > buffer_size)
    /\ wblocked' = ~can_write_event
    /\ pruneSeen' = "no"
    /\ ppc' = "w_wait"
    /\ UNCHANGED <<objVars, cfgVars, error, consVars, kpc, closeRel>>

\* A write that does not wait for room.
WriteMayPassAlways(flag) == TRUE

\* Whether self.can_write_event.wait() returns.
WriteMayPass(flag) == flag

\* self.can_write_event.wait()
WriteWait ==
    /\ ppc = "w_wait"
    /\ WriteMayPass(can_write_event)
    /\ ppc' = "w_lock"
    /\ UNCHANGED <<objVars, cfgVars, error, chunk, wtotal, wover, wblocked, pruneSeen,
                   consVars, kpc, closeRel>>

\* with self.lock: self.data += chunk
WriteAppend ==
    /\ ppc = "w_lock"
    /\ lock = NoThread
    /\ lock' = "producer"
    /\ data' = data \o chunk
    /\ ppc' = "w_events"
    /\ closeRel' = FALSE
    /\ UNCHANGED <<seek_pos, processed, closed, can_read_event, can_write_event,
                   cfgVars, error, chunk, wtotal, wover, wblocked, pruneSeen, consVars, kpc>>

\* A write that clears can_write_event only above buffer_size.
WriteClearsAbove(len) == len > buffer_size

\* A write that clears the room-available event one byte early.
WriteClearsEarly(len) == len >= buffer_size - 1

\* `if len(self.data) >= self.buffer_size: self.can_write_event.clear()`
WriteClears(len) == len >= buffer_size

\* can_read_event.set(); clear can_write_event when full; release; return.
WriteEvents ==
    /\ ppc = "w_events"
    /\ can_read_event' = TRUE
    /\ can_write_event' = IF WriteClears(Len(data)) THEN FALSE ELSE can_write_event
    /\ lock' = NoThread
    /\ ppc' = "idle"
    /\ chunk' = <<>>
    /\ wover' = FALSE
    /\ wblocked' = FALSE
    /\ pruneSeen' = "no"
    /\ UNCHANGED <<data, seek_pos, processed, closed, cfgVars, error, wtotal, consVars, kpc,
                   closeRel>>

\* -------------------------------------------------------------------- read
\* The consumer calls read(k).
ReadCall(k) ==
    /\ cpc = "idle"
    /\ n' = k
    /\ cpc' = "r_wait"
    /\ seek00' = FALSE
    /\ UNCHANGED <<ret, objVars, cfgVars, error, prodVars, pruneSeen, output, amount, sarg, got,
                   kpc, closeRel>>

\* self.can_read_event.wait()
ReadWait ==
    /\ cpc = "r_wait"
    /\ can_read_event
    /\ cpc' = "r_lock"
    /\ UNCHANGED <<ret, seek00, objVars, cfgVars, error, prodVars, pruneSeen, n, output, amount, sarg, got,
                   kpc, closeRel>>

\* seek_amount = min([n, len(self.data) - self.seek_pos])
\* A read that advances the cursor by n even when fewer bytes are buffered.
ReadCurrentSeekPastEnd(d, sp, k) == sp + k

\* current_seek = self.seek_pos + seek_amount
ReadCurrentSeek(d, sp, k) == sp + Min(k, Len(d) - sp)

\* output = self.data[self.seek_pos:current_seek]
ReadOutput(d, sp, k) == PySlice(d, sp, ReadCurrentSeek(d, sp, k))

\* A read whose with-block runs on to the end of the method: the lock is
\* still held when the method goes on to prune.
ReadLockHeld == "consumer"

\* The with-block of read ends after `self.seek_pos = current_seek`: the lock
\* is free again when read goes on to return or to prune.
ReadLockAfter == NoThread

\* read's critical section: with self.lock: ... self.seek_pos = current_seek
ReadBody ==
    /\ cpc = "r_lock"
    /\ lock = NoThread
    /\ output' = ReadOutput(data, seek_pos, n)
    /\ seek_pos' = ReadCurrentSeek(data, seek_pos, n)
    /\ lock' = ReadLockAfter
    /\ cpc' = "r_ret"
    /\ UNCHANGED <<ret, seek00, data, processed, closed, can_read_event, can_write_event,
                   cfgVars, error, prodVars, pruneSeen, n, amount, sarg, got, kpc, closeRel>>

\* S3StreamingUpload.read: `return output`;
\* S3StreamingDownload.read: `if output == b'': return` (None).
ReadReturn ==
    /\ cpc = "r_ret"
    /\ variant = "Upload" \/ output = <<>>
    /\ cpc' = "idle"
    /\ n' = 0
    /\ output' = <<>>
    /\ closeRel' = FALSE
    /\ UNCHANGED <<ret, seek00, objVars, cfgVars, error, prodVars, pruneSeen, amount, sarg, got, kpc>>

\* S3StreamingDownload.read: self.prune(len(output))
ReadSelfPrune ==
    /\ cpc = "r_ret"
    /\ variant = "Download"
    /\ output # <<>>
    /\ amount' = Len(output)
    /\ cpc' = "p_lock"
    /\ UNCHANGED <<ret, seek00, objVars, cfgVars, error, prodVars, pruneSeen, n, output, sarg, got, kpc,
                   closeRel>>

\* ------------------------------------------------------------------- prune
\* S3StreamingUpload: the driver calls prune(a) as its progress callback, on
\* the thread that reads, for a prefix of the buffered window.
PruneCall(a) ==
    /\ cpc = "idle"
    /\ variant = "Upload"
    /\ a <= Len(data)
    /\ amount' = a
    /\ cpc' = "p_lock"
    /\ seek00' = FALSE
    /\ UNCHANGED <<ret, objVars, cfgVars, error, prodVars, pruneSeen, n, output, sarg, got, kpc,
                   closeRel>>

\* A prune that drops one byte too many.
PruneDataOffByOne(d, a) == PySlice(d, a + 1, Len(d))

\* A prune that leaves the window as it is.
PruneDataKeepsAll(d, a) == d

\* new_data = self.data[amount:]
PruneData(d, a) == PySlice(d, a, Len(d))

\* A prune that does not wake the writers.
PruneCanWriteKeeps(len, cur) == cur

\* `if not self.can_write_event.is_set(): self.can_write_event.set()`
PruneCanWrite(len, cur) == TRUE

\* A prune that keeps the cursor from going below the start of the window.
PruneSeekPosClamped(sp, a) == IF sp - a < 0 THEN 0 ELSE sp - a

\* self.seek_pos -= amount
PruneSeekPos(sp, a) == sp - a

\* with self.lock: data, seek_pos, processed and can_write_event.
PruneSlice ==
    /\ cpc = "p_lock"
    /\ lock = NoThread
    /\ lock' = "consumer"
    /\ data' = PruneData(data, amount)
    /\ seek_pos' = PruneSeekPos(seek_pos, amount)
    /\ processed' = processed + amount
    /\ can_write_event' = PruneCanWrite(Len(data'), can_write_event)
    /\ pruneSeen' = IF ppc = "idle" THEN "no"
                    ELSE IF Len(data') < buffer_size \/ pruneSeen = "below" THEN "below"
                    ELSE "some"
    /\ cpc' = "p_events"
    /\ UNCHANGED <<ret, seek00, closed, can_read_event, cfgVars, error, prodVars, n, output, amount, sarg,
                   got, kpc, closeRel>>

\* A prune that sets the data-available event at the end of the stream and
\* never clears it.
PruneCanReadNeverClears(len, proc, cur) == IF len = 0 /\ proc = file_size THEN TRUE ELSE cur

\* if len(self.data) == 0:
\*     if self.processed == self.file_size: self.can_read_event.set()
\*     else: self.can_read_event.clear()
PruneCanRead(len, proc, cur) == IF len = 0 THEN proc = file_size ELSE cur

\* The end of prune's critical section, the release of the lock and the
\* return (of prune to the driver, or of S3StreamingDownload.read with output).
PruneEvents ==
    /\ cpc = "p_events"
    /\ can_read_event' = PruneCanRead(Len(data), processed, can_read_event)
    /\ lock' = NoThread
    /\ got' = IF variant = "Upload" THEN got ELSE got \o output
    /\ cpc' = "idle"
    /\ n' = 0
    /\ output' = <<>>
    /\ amount' = 0
    /\ closeRel' = FALSE
    /\ UNCHANGED <<ret, seek00, data, seek_pos, processed, closed, can_write_event, cfgVars, error, prodVars,
                   pruneSeen, sarg, kpc>>

\* ------------------------------------------------------------- seek, tell
\* The consumer calls seek(off, wh).  A relative seek of the Upload cursor is
\* kept within -MaxFile - MaxSeek .. MaxFile + MaxSeek.
SeekCall(off, wh) ==
    /\ cpc = "idle"
    /\ (variant = "Upload" /\ wh = 1) =>
           (seek_pos + off >= 0 - MaxFile - MaxSeek /\ seek_pos + off <= MaxFile + MaxSeek)
    /\ sarg' = <<off, wh>>
    /\ cpc' = "s_lock"
    /\ seek00' = FALSE
    /\ UNCHANGED <<ret, objVars, cfgVars, error, prodVars, pruneSeen, n, output, amount, got, kpc,
                   closeRel>>

\* S3StreamingUpload.seek: the new self.seek_pos, which it returns.
UploadSeekPos(off, wh) ==
    IF wh <= 0 \/ wh > 2 THEN off
    ELSE IF wh = 1 THEN seek_pos + off
    ELSE file_size + off

\* A seek that takes whence 2 from the end of the window, not of the file.
SeekPosFromWindowEnd(off, wh) ==
    IF wh <= 0 \/ wh > 2 THEN off
    ELSE processed + Len(data) + off

\* S3StreamingDownload.seek: the local `pos` it returns; self.seek_pos is not assigned.
DownloadSeekPos(off, wh) ==
    IF wh <= 0 \/ wh > 2 THEN off
    ELSE IF wh = 1 THEN processed + Len(data) + off
    ELSE file_size + off

\* seek's critical section.
SeekBody ==
    /\ cpc = "s_lock"
    /\ lock = NoThread
    /\ seek_pos' = IF variant = "Upload" THEN UploadSeekPos(sarg[1], sarg[2]) ELSE seek_pos
    /\ ret' = IF variant = "Upload" THEN UploadSeekPos(sarg[1], sarg[2])
                                    ELSE DownloadSeekPos(sarg[1], sarg[2])
    /\ cpc' = "s_ret"
    /\ UNCHANGED <<data, processed, closed, can_read_event, can_write_event, lock,
                   cfgVars, error, prodVars, pruneSeen, n, output, amount, sarg, got, seek00,
                   kpc, closeRel>>

\* seek hands its position to the caller: return self.seek_pos / return pos
SeekReturn ==
    /\ cpc = "s_ret"
    /\ cpc' = "idle"
    /\ seek00' = (sarg = <<0, 0>>)
    /\ sarg' = <<0, 0>>
    /\ ret' = 0
    /\ UNCHANGED <<objVars, cfgVars, error, prodVars, pruneSeen, n, output, amount, got,
                   kpc, closeRel>>

\* The consumer calls tell().
TellCall ==
    /\ cpc = "idle"
    /\ cpc' = "t_lock"
    /\ UNCHANGED <<ret, seek00, objVars, cfgVars, error, prodVars, pruneSeen, n, output, amount, sarg, got,
                   kpc, closeRel>>

\* tell's critical section: with self.lock: return self.seek_pos
TellBody ==
    /\ cpc = "t_lock"
    /\ lock = NoThread
    /\ ret' = seek_pos
    /\ cpc' = "t_ret"
    /\ UNCHANGED <<objVars, cfgVars, error, prodVars, pruneSeen, n, output, amount, sarg, got,
                   seek00, kpc, closeRel>>

\* tell hands the cursor to the caller.
TellReturn ==
    /\ cpc = "t_ret"
    /\ cpc' = "idle"
    /\ ret' = 0
    /\ seek00' = FALSE
    /\ UNCHANGED <<objVars, cfgVars, error, prodVars, pruneSeen, n, output, amount, sarg, got,
                   kpc, closeRel>>

\* ------------------------------------------------------------------- error
\* Some thread assigns stream.error = err; the setter keeps err only when it
\* is an Exception instance and leaves the field alone otherwise.
SetError(isException) ==
    /\ error' = IF isException THEN "Exception" ELSE error
    /\ UNCHANGED <<objVars, cfgVars, prodVars, consVars, pruneSeen, kpc, closeRel>>

\* ------------------------------------------------------------------- close
\* Some thread calls close().
CloseCall ==
    /\ kpc = "idle"
    /\ kpc' = "c_lock"
    /\ UNCHANGED <<objVars, cfgVars, error, prodVars, pruneSeen, consVars, closeRel>>

\* with self.lock: self.__closed = True
CloseFlag ==
    /\ kpc = "c_lock"
    /\ lock = NoThread
    /\ lock' = "closer"
    /\ closed' = TRUE
    /\ kpc' = "c_event"
    /\ UNCHANGED <<data, seek_pos, processed, can_read_event, can_write_event,
                   cfgVars, error, prodVars, pruneSeen, consVars, closeRel>>

\* A close that flips the room-available event.
CloseCanWriteToggles(cur) == ~cur

\* close leaves can_write_event as it is ...
CloseCanWrite(cur) == cur

\* A close that forgets to release the readers.
CloseCanReadKeeps(cur) == cur

\* ... and does self.can_read_event.set()
CloseCanRead(cur) == TRUE

\* The events at the end of close's critical section, the release, the return.
CloseEvent ==
    /\ kpc = "c_event"
    /\ can_read_event' = CloseCanRead(can_read_event)
    /\ can_write_event' = CloseCanWrite(can_write_event)
    /\ lock' = NoThread
    /\ kpc' = "idle"
    /\ closeRel' = IF cpc = "r_wait" /\ ~can_read_event THEN TRUE ELSE closeRel
    /\ UNCHANGED <<data, seek_pos, processed, closed, cfgVars, error, prodVars, pruneSeen,
                   consVars>>

\* ----------------------------------------------------------- specification
WriteStep == WriteWait \/ WriteAppend \/ WriteEvents

ReadStep == ReadWait \/ ReadBody \/ ReadReturn \/ ReadSelfPrune

PruneStep == PruneSlice \/ PruneEvents

SeekStep == SeekBody \/ SeekReturn

TellStep == TellBody \/ TellReturn

CloseStep == CloseFlag \/ CloseEvent

\* Every operation of both subclasses, called with any argument.
Next ==
    \/ \E k \in 0..MaxChunk : WriteCall(k)
    \/ WriteStep
    \/ \E k \in 0..MaxN : ReadCall(k)
    \/ ReadStep
    \/ \E a \in 0..MaxChunk : PruneCall(a)
    \/ PruneStep
    \/ \E off \in (0 - MaxSeek)..MaxSeek, wh \in 0..2 : SeekCall(off, wh)
    \/ SeekStep
    \/ TellCall
    \/ TellStep
    \/ CloseCall
    \/ CloseStep

Spec == Init /\ [][Next]_vars

\* The same operations together with assignments to stream.error, on a
\* stream with the smallest buffer.
InitError ==
    /\ variant \in Variants
    /\ file_size \in 0..ErrMaxFile
    /\ buffer_size = 1
    /\ InitObject
    /\ InitThreads

NextError == Next \/ \E isException \in BOOLEAN : SetError(isException)

SpecError == InitError /\ [][NextError]_vars

\* The same operations on a short stream, with the consumer thread weakly
\* fair inside its methods: once it can take its next step in read, prune,
\* seek or tell it eventually takes it.  Nothing obliges a thread to call a
\* method, and the lock is not fair.
InitClose ==
    /\ variant \in Variants
    /\ file_size \in 0..CloseMaxFile
    /\ buffer_size \in 1..MaxBuf
    /\ InitObject
    /\ InitThreads

SpecClose == InitClose /\ [][Next]_vars

FairClose == SpecClose /\ WF_vars(ReadStep \/ PruneStep \/ SeekStep \/ TellStep)

\* S3StreamingDownload as download_fileobj drives it: one producer writing
\* non-empty chunks that total file_size, one consumer calling read(k), k >= 1.
InitStream ==
    /\ variant = "Download"
    /\ file_size \in 0..StreamMaxFile
    /\ buffer_size \in 1..MaxBuf
    /\ InitObject
    /\ InitThreads

ProducerStream == (\E k \in 1..MaxChunk : WriteCall(k)) \/ WriteStep

ConsumerStream == (\E k \in 1..MaxN : ReadCall(k)) \/ ReadStep \/ PruneStep

NextStream == ProducerStream \/ ConsumerStream

SpecStream == InitStream /\ [][NextStream]_vars

\* Both threads keep running: the producer until it has written file_size
\* bytes, the consumer for ever.
FairStream == SpecStream /\ WF_vars(ProducerStream) /\ WF_vars(ConsumerStream)

\* The scenario of the specification's section 8: file_size = 10,
\* buffer_size = 4, the producer writes b'abcd', b'efgh', b'ij' (bytes 1..4,
\* 5..8, 9..10), the consumer calls read(4) and then read(10) again and again;
\* the Upload driver prunes what each read returned (the cursor is then the
\* length of the result) before it reads again.
InitScenario ==
    /\ variant \in Variants
    /\ file_size = 10
    /\ buffer_size = 4
    /\ InitObject
    /\ InitThreads

NextScenario ==
    \/ WriteCall(IF wtotal < 8 THEN 4 ELSE 2)
    \/ WriteStep
    \/ (variant = "Download" \/ seek_pos = 0) /\ ReadCall(IF processed = 0 THEN 4 ELSE 10)
    \/ ReadStep
    \/ seek_pos > 0 /\ PruneCall(seek_pos)
    \/ PruneStep

SpecScenario == InitScenario /\ [][NextScenario]_vars

\* ===================================================================== claims
\* S3StreamingDownload.read is about to return None.
ReturnsNone == variant = "Download" /\ cpc = "r_ret" /\ output = <<>>

\* The write in progress has passed can_write_event.wait().
WritePastWait == ppc \in {"w_lock", "w_events"}

\* C1: round trip under concurrency (S3StreamingDownload, one producer of
\* non-empty chunks, one consumer calling read(n), n >= 1): the results read
\* so far are the first bytes written, in order, each once; and when read
\* returns None they are all file_size bytes written.
RoundTrip ==
    /\ got = Bytes(1, Len(got))
    /\ ReturnsNone => got = Bytes(1, file_size)

\* C1 witness: None is returned after a stream of at least three bytes went
\* through a buffer of one byte.
RoundTripWitness ==
    /\ ReturnsNone
    /\ file_size >= 3
    /\ buffer_size = 1
    /\ got = Bytes(1, file_size)

MemoryCeiling == Len(data) <= buffer_size - 1 + MaxChunk

\* C4: close() releases a blocked consumer: a consumer that close() found
\* waiting on can_read_event eventually leaves the wait, and if no write
\* completed in between its read has the empty result (returned as b'' by
\* S3StreamingUpload.read and as None by S3StreamingDownload.read).
CloseReleasesReader ==
    /\ []((closeRel /\ cpc = "r_ret") => output = <<>>)
    /\ ((closeRel /\ cpc = "r_wait") ~> (cpc # "r_wait"))

\* C4 witness: the read of a consumer that close() released is about to
\* return its empty result.
CloseReleasesWitness == closeRel /\ cpc = "r_ret" /\ output = <<>> /\ closed

\* C5: when close() returns, can_read_event and can_write_event are both set.
CloseSetsBothEvents ==
    [][(kpc = "c_event" /\ kpc' = "idle") => (can_read_event' /\ can_write_event')]_vars

\* C6: once a close() has completed, can_read_event is set in every state in
\* which the lock is free.
NoBlockAfterClose == (closed /\ kpc = "idle" /\ lock = NoThread) => can_read_event

\* C7: eventual completion without close (S3StreamingDownload, both threads
\* weakly fair): every write returns, processed reaches file_size, and read
\* returns None.
EventualCompletion ==
    /\ (ppc # "idle") ~> (ppc = "idle")
    /\ <>(processed = file_size)
    /\ <>ReturnsNone

\* C8: no premature end of stream: S3StreamingDownload.read returns None only
\* when the stream is closed, or processed = file_size with an empty window.
NoPrematureEndOfStream ==
    ReturnsNone => (closed \/ (processed = file_size /\ data = <<>>))

\* The scenario's steps that the code takes as claimed: write(b'abcd') does not
\* wait; write(b'efgh') gets past its wait only after prune(4); read(4)
\* returns b'abcd'; a read at processed = 10 returns empty.
ScenarioCommon ==
    /\ (ppc = "w_wait" /\ wtotal = 4) => can_write_event
    /\ (WritePastWait /\ wtotal = 8) => processed >= 4
    /\ (cpc = "r_ret" /\ n = 4) => output = Bytes(1, 4)
    /\ (cpc = "r_ret" /\ processed = 10) => output = <<>>

\* C9 as claimed: the scenario, in which write(b'ij') does not wait for a
\* further prune and the read(10) after the first prune returns b'efghij'.
ScenarioClaimed ==
    /\ ScenarioCommon
    /\ (ppc = "w_wait" /\ wtotal = 10) => can_write_event
    /\ (cpc = "r_ret" /\ n = 10 /\ processed = 4) => output = Bytes(5, 10)

\* C9 amended: the scenario, in which write(b'ij') gets past its wait only
\* after a second prune (processed = 8), the read(10) after the first prune
\* returns b'efgh' and the read(10) after the second returns b'ij'.
ScenarioAmended ==
    /\ ScenarioCommon
    /\ (WritePastWait /\ wtotal = 10) => processed >= 8
    /\ (cpc = "r_ret" /\ n = 10 /\ processed = 4) => output = Bytes(5, 8)
    /\ (cpc = "r_ret" /\ n = 10 /\ processed = 8) => output = Bytes(9, 10)

\* C9 witness: all ten bytes are processed and the next read is about to
\* return empty.
ScenarioWitness ==
    /\ cpc = "r_ret" /\ n = 10 /\ output = <<>>
    /\ processed = 10 /\ wtotal = 10 /\ ppc = "idle"

Max(a, b) == IF a < b THEN b ELSE a

\* The bytes of window d at the offsets sp .. sp + k - 1 that lie in the window.
Window(d, sp, k) ==
    IF Max(sp, 0) >= Min(sp + k, Len(d)) THEN <<>>
    ELSE SubSeq(d, Max(sp, 0) + 1, Min(sp + k, Len(d)))

\* C10: S3StreamingUpload.read(n) returns the at most n bytes of data from
\* the old seek_pos on, and adds the length of its result to seek_pos.
ReadAdvancesCursor ==
    [][(variant = "Upload" /\ cpc = "r_lock" /\ cpc' = "r_ret") =>
           (/\ output' = Window(data, seek_pos, n)
            /\ seek_pos' = seek_pos + Len(output'))]_vars

\* C11: seek(offset, 0) returns offset and seek(offset, 2) returns
\* file_size + offset in both subclasses, whatever the window, processed and
\* the cursor are; and a tell that follows a seek(0, 0) of the same thread
\* with no other call of that thread in between returns 0.
SeekResults ==
    /\ (cpc = "s_ret" /\ sarg[2] = 0) => ret = sarg[1]
    /\ (cpc = "s_ret" /\ sarg[2] = 2) => ret = file_size + sarg[1]
    /\ (cpc = "t_ret" /\ seek00) => ret = 0

\* C11 witness: on a Download stream with bytes processed and bytes in the
\* window, tell is returning right after seek(0, 0) returned.
SeekResultsWitness ==
    /\ variant = "Download" /\ cpc = "t_ret" /\ seek00
    /\ processed > 0 /\ data # <<>>

\* A step of close's critical section.
CloseStepTaken ==
    \/ kpc = "c_lock" /\ kpc' = "c_event"
    \/ kpc = "c_event" /\ kpc' = "idle"

\* C12: close is idempotent and closed is monotonic: every close ends with
\* closed and can_read_event both true; a close that runs on a stream in that
\* condition changes none of closed, can_read_event, can_write_event, data,
\* seek_pos, processed, error; and no step of any operation resets closed.
CloseIdempotent ==
    [][/\ closed => closed'
       /\ (kpc = "c_event" /\ kpc' = "idle") => (closed' /\ can_read_event')
       /\ (CloseStepTaken /\ closed /\ can_read_event) =>
              UNCHANGED <<closed, can_read_event, can_write_event, data, seek_pos,
                          processed, error>>]_vars

\* C12 witness: a close is in its critical section on a stream that an
\* earlier close released with no write since, and whose error is set.
CloseIdempotentWitness ==
    kpc = "c_event" /\ closeRel /\ closed /\ error = "Exception"

\* C13: in the Download stream with one producer and one consumer, the
\* producer is never blocked on can_write_event while the consumer is blocked
\* on can_read_event, and the lock is never held by a thread that is at an
\* event wait or waiting for the lock.
NoDeadlock ==
    /\ ~(/\ ppc = "w_wait" /\ ~can_write_event
         /\ cpc = "r_wait" /\ ~can_read_event)
    /\ lock = "producer" => ppc = "w_events"
    /\ lock = "consumer" => cpc = "p_events"

\* C13 witness: the producer is blocked in write on a full window while the
\* consumer is at its wait with the data-available event set.
NoDeadlockWitness ==
    /\ ppc = "w_wait" /\ ~can_write_event
    /\ cpc = "r_wait" /\ can_read_event
    /\ Len(data) >= buffer_size

\* C14: whenever the lock is free and the window holds fewer than
\* buffer_size bytes, can_write_event is set.
RoomAvailable ==
    (lock = NoThread /\ Len(data) < buffer_size) => can_write_event

\* C14 witness: bytes have been pruned from a window that a write had filled,
\* a byte is left in it, and the room-available event is set again.
RoomAvailableWitness ==
    /\ lock = NoThread /\ processed > 0 /\ data # <<>>
    /\ Len(data) < buffer_size /\ can_write_event

\* C15: whenever the lock is free and can_read_event is clear, the window
\* is empty and processed differs from file_size; this for every file_size
\* from 0 on and from the initial state on.
ReadEventClearOnlyWhenEmpty ==
    (lock = NoThread /\ ~can_read_event) => (data = <<>> /\ processed # file_size)

\* C16: a thread that waits on an event does not hold the lock, a thread
\* that is about to acquire the lock does not hold it already, and
\* S3StreamingDownload.read has released the lock when it goes on to prune.
LockDiscipline ==
    /\ ppc \in {"w_wait", "w_lock"} => lock # "producer"
    /\ cpc \in {"r_wait", "r_lock", "p_lock", "s_lock", "t_lock"} => lock # "consumer"
    /\ kpc = "c_lock" => lock # "closer"
    /\ (variant = "Download" /\ cpc = "r_ret") => lock # "consumer"

\* C16 witness: S3StreamingDownload.read has returned from its critical
\* section with bytes and its prune waits for the lock, which the producer
\* holds.
LockDisciplineWitness ==
    /\ variant = "Download" /\ cpc = "p_lock" /\ amount > 0
    /\ lock = "producer"

\* The number of bytes the writes have appended to the window so far.
Appended == IF ppc \in {"w_wait", "w_lock"} THEN wtotal - Len(chunk) ELSE wtotal

\* C17: in S3StreamingDownload, processed + len(data) is the number of
\* bytes written so far, which is at most file_size, and data is the written
\* byte sequence from the logical offset processed on.
WindowAccounting ==
    variant = "Download" =>
        /\ processed + Len(data) = Appended
        /\ Appended <= file_size
        /\ data = Bytes(processed + 1, Appended)

\* C17 witness: a byte has been processed, another is in the window and a
\* read is returning bytes.
WindowAccountingWitness ==
    /\ variant = "Download" /\ processed > 0 /\ data # <<>>
    /\ cpc = "r_ret" /\ output # <<>>

\* C18: a prune(amount) with amount <= len(data) drops the first amount
\* bytes of the window, keeps processed + seek_pos, keeps the byte at every
\* logical offset that stays in the window, and changes neither closed nor
\* error.
PruneFrame ==
    [][/\ (cpc = "p_lock" /\ cpc' = "p_events" /\ amount <= Len(data)) =>
              /\ Len(data') = Len(data) - amount
              /\ \A i \in 1..Len(data') : data'[i] = data[i + amount]
              /\ processed' = processed + amount
              /\ processed' + seek_pos' = processed + seek_pos
              /\ closed' = closed /\ error' = error
       /\ (cpc = "p_events" /\ cpc' = "idle") =>
              UNCHANGED <<data, processed, seek_pos, closed, error>>]_vars

\* C18 witness: on a closed stream whose error is set, a prune has dropped
\* a byte, a byte is left, and the cursor has gone below the window.
PruneFrameWitness ==
    /\ cpc = "p_events" /\ amount > 0 /\ data # <<>>
    /\ seek_pos < 0 /\ closed /\ error = "Exception"

\* C19: in S3StreamingDownload the cursor is within the window whenever
\* the lock is free, and is 0 whenever no read is in progress.
CursorRange ==
    variant = "Download" =>
        /\ lock = NoThread => (0 <= seek_pos /\ seek_pos <= Len(data))
        /\ cpc \in {"idle", "s_lock", "s_ret", "t_lock", "t_ret"} => seek_pos = 0

\* C19 witness: a read has taken bytes, the producer has appended more
\* since, and the read has not pruned yet.
CursorRangeWitness ==
    /\ variant = "Download" /\ lock = NoThread /\ cpc = "r_ret"
    /\ 0 < seek_pos /\ seek_pos < Len(data)

\* The step that ends write, close and prune.
WriteEnds == ppc = "w_events" /\ ppc' = "idle"

CloseEnds == kpc = "c_event" /\ kpc' = "idle"

PruneEnds == cpc = "p_events" /\ cpc' = "idle"

\* C20: in S3StreamingUpload every write and every close sets
\* can_read_event, only a prune at which processed reaches file_size clears
\* it, and a prune that leaves the window empty with processed < file_size
\* leaves it as it is.
UploadReadEventClaimed ==
    [][variant = "Upload" =>
           /\ WriteEnds => can_read_event'
           /\ CloseEnds => can_read_event'
           /\ (can_read_event /\ ~can_read_event') => (PruneEnds /\ processed = file_size)
           /\ (PruneEnds /\ data = <<>> /\ processed < file_size) =>
                  can_read_event' = can_read_event]_vars

\* C20 amended: in S3StreamingUpload every write and every close sets
\* can_read_event; a prune that leaves the window empty sets it when
\* processed equals file_size and clears it otherwise; a prune that leaves
\* bytes in the window leaves it as it is; nothing else clears it.
UploadReadEvent ==
    [][variant = "Upload" =>
           /\ WriteEnds => can_read_event'
           /\ CloseEnds => can_read_event'
           /\ (can_read_event /\ ~can_read_event') =>
                  (PruneEnds /\ data = <<>> /\ processed # file_size)
           /\ (PruneEnds /\ data = <<>>) => can_read_event' = (processed = file_size)
           /\ (PruneEnds /\ data # <<>>) => can_read_event' = can_read_event]_vars

\* C20 witness: the driver's prune has emptied the window before the end
\* of the stream and has cleared can_read_event.
UploadReadEventWitness ==
    /\ variant = "Upload" /\ cpc = "idle" /\ lock = NoThread
    /\ data = <<>> /\ 0 < processed /\ processed < file_size
    /\ ~can_read_event

====
